---------------------------- MODULE Spec2Model ----------------------------
(***************************************************************************)
(* Model of the Calorie-Counter repository:                                *)
(*   - src/src/app/api/analyze/route.ts  (analyze handler, POST)           *)
(*   - src/src/app/api/upload/route.ts   (upload handler, POST)            *)
(*   - src/src/app/page.tsx              (client form, Home)               *)
(* Text is modelled as sequences of one-character strings, JSON values as  *)
(* records, and each handler as a process stepping through its stages.     *)
(***************************************************************************)
EXTENDS Integers, Sequences, FiniteSets, TLC

(***************************************************************************)
(* Bounds of the model.                                                    *)
(***************************************************************************)
\* longest items array a model reply carries
MaxItems == 2
\* last value of the millisecond clock read by Date.now()
MaxClock == 2

(***************************************************************************)
(* Text: sequences of characters.                                          *)
(***************************************************************************)
QUOTE == "\""
NL == "\n"
SPACE == " "
DigitChars == <<"0", "1", "2", "3", "4", "5", "6", "7", "8", "9">>
LowerChars == <<"a", "b", "c", "d", "e", "f", "g", "h", "i", "j", "k", "l", "m",
                "n", "o", "p", "q", "r", "s", "t", "u", "v", "w", "x", "y", "z">>
UpperChars == <<"A", "B", "C", "D", "E", "F", "G", "H", "I", "J", "K", "L", "M",
                "N", "O", "P", "Q", "R", "S", "T", "U", "V", "W", "X", "Y", "Z">>

Range(f) == {f[i] : i \in DOMAIN f}
IsDigit(c) == c \in Range(DigitChars)
IsLower(c) == c \in Range(LowerChars)
IsUpper(c) == c \in Range(UpperChars)
\* String.prototype.trim / JSON whitespace on the characters of the model
IsWhite(c) == c \in {" ", "\n", "\t", "\r"}

\* String.prototype.toLowerCase, one character
LowerChar(c) ==
    IF IsUpper(c) THEN LowerChars[CHOOSE i \in 1..26 : UpperChars[i] = c] ELSE c
ToLowerCase(s) == [i \in 1..Len(s) |-> LowerChar(s[i])]

\* String.prototype.trim
TrimStartIdx(s) ==
    IF \A i \in 1..Len(s) : IsWhite(s[i]) THEN Len(s) + 1
    ELSE CHOOSE i \in 1..Len(s) : ~IsWhite(s[i]) /\ \A j \in 1..(i-1) : IsWhite(s[j])
TrimEndIdx(s) ==
    IF \A i \in 1..Len(s) : IsWhite(s[i]) THEN 0
    ELSE CHOOSE i \in 1..Len(s) : ~IsWhite(s[i]) /\ \A j \in (i+1)..Len(s) : IsWhite(s[j])
Trim(s) == SubSeq(s, TrimStartIdx(s), TrimEndIdx(s))

StartsWith(s, p) == Len(s) >= Len(p) /\ SubSeq(s, 1, Len(p)) = p
EndsWith(s, p) == Len(s) >= Len(p) /\ SubSeq(s, Len(s) - Len(p) + 1, Len(s)) = p

\* String.prototype.split(sep) for a one-character separator: the pieces
\* between the separators, empty pieces kept
SepPositions(s, sep) == {i \in 1..Len(s) : s[i] = sep}
RECURSIVE SplitFrom(_, _, _)
SplitFrom(s, sep, from) ==
    LET later == {i \in SepPositions(s, sep) : i >= from}
    IN  IF later = {} THEN <<SubSeq(s, from, Len(s))>>
        ELSE LET p == CHOOSE i \in later : \A j \in later : i <= j
             IN  <<SubSeq(s, from, p - 1)>> \o SplitFrom(s, sep, p + 1)
Split(s, sep) == SplitFrom(s, sep, 1)

\* Array.prototype.join(sep)
RECURSIVE Join(_, _)
Join(parts, sep) ==
    IF Len(parts) = 0 THEN <<>>
    ELSE IF Len(parts) = 1 THEN parts[1]
    ELSE parts[1] \o sep \o Join(Tail(parts), sep)

\* Number.prototype.toString(10) of a natural number
RECURSIVE NatToChars(_)
NatToChars(n) ==
    IF n < 10 THEN <<DigitChars[n + 1]>>
    ELSE NatToChars(n \div 10) \o <<DigitChars[(n % 10) + 1]>>
DigitVal(c) == (CHOOSE i \in 1..10 : DigitChars[i] = c) - 1


(***************************************************************************)
(* JSON values.  Every value is a record of the same shape, so that any    *)
(* two values can be compared: t is the JavaScript kind, b the boolean, n   *)
(* the number, s the string, keys/kids the properties of an object (in     *)
(* insertion order) or kids the elements of an array.                      *)
(***************************************************************************)
JNull == [t |-> "null", b |-> FALSE, n |-> 0, s |-> <<>>, keys |-> <<>>, kids |-> <<>>]
JUndefined == [t |-> "undefined", b |-> FALSE, n |-> 0, s |-> <<>>, keys |-> <<>>, kids |-> <<>>]
JBool(b) == [t |-> "bool", b |-> b, n |-> 0, s |-> <<>>, keys |-> <<>>, kids |-> <<>>]
JNum(n) == [t |-> "num", b |-> FALSE, n |-> n, s |-> <<>>, keys |-> <<>>, kids |-> <<>>]
JStr(s) == [t |-> "str", b |-> FALSE, n |-> 0, s |-> s, keys |-> <<>>, kids |-> <<>>]
JArr(kids) == [t |-> "arr", b |-> FALSE, n |-> 0, s |-> <<>>, keys |-> <<>>, kids |-> kids]
JObj(keys, kids) == [t |-> "obj", b |-> FALSE, n |-> 0, s |-> <<>>, keys |-> keys, kids |-> kids]

\* the JavaScript typeof operator
TypeOf(v) ==
    CASE v.t = "undefined" -> "undefined"
      [] v.t = "bool" -> "boolean"
      [] v.t = "num" -> "number"
      [] v.t = "str" -> "string"
      [] OTHER -> "object"

\* JavaScript truthiness, as tested by !v
Truthy(v) ==
    CASE v.t \in {"undefined", "null"} -> FALSE
      [] v.t = "bool" -> v.b
      [] v.t = "num" -> v.n # 0
      [] v.t = "str" -> Len(v.s) > 0
      [] OTHER -> TRUE

\* property read v.key of a non-nullish value; the keys the handlers read
\* (imageUrl, items, name, estimatedGrams) exist only as own properties of
\* objects
GetProp(v, key) ==
    IF v.t = "obj" /\ \E i \in 1..Len(v.keys) : v.keys[i] = key
    THEN v.kids[CHOOSE i \in 1..Len(v.keys) : v.keys[i] = key]
    ELSE JUndefined

\* property definition while parsing: a repeated key keeps its place and
\* takes the later value
ObjSet(o, key, val) ==
    IF \E i \in 1..Len(o.keys) : o.keys[i] = key
    THEN LET i == CHOOSE j \in 1..Len(o.keys) : o.keys[j] = key
         IN  JObj(o.keys, [o.kids EXCEPT ![i] = val])
    ELSE JObj(Append(o.keys, key), Append(o.kids, val))

(***************************************************************************)
(* JSON.parse on the characters of the model: objects, arrays, strings     *)
(* without escapes, integer numerals, true, false, null.                   *)
(***************************************************************************)
ParseFail == [ok |-> FALSE, val |-> JUndefined, pos |-> 0]
ParseOk(v, pos) == [ok |-> TRUE, val |-> v, pos |-> pos]

RECURSIVE SkipWs(_, _)
SkipWs(s, i) ==
    IF i <= Len(s) /\ IsWhite(s[i]) THEN SkipWs(s, i + 1) ELSE i

ParseLiteral(s, i, word, val) ==
    IF i + Len(word) - 1 <= Len(s) /\ SubSeq(s, i, i + Len(word) - 1) = word
    THEN ParseOk(val, i + Len(word))
    ELSE ParseFail

ParseString(s, i) ==
    LET closes == {j \in (i+1)..Len(s) : s[j] = QUOTE}
    IN  IF closes = {} THEN ParseFail
        ELSE LET j == CHOOSE k \in closes : \A m \in closes : k <= m
             IN  IF \E k \in (i+1)..(j-1) : s[k] \in {"\n", "\t", "\r", "\\"}
                 THEN ParseFail
                 ELSE ParseOk(JStr(SubSeq(s, i + 1, j - 1)), j + 1)

RECURSIVE DigitsEnd(_, _)
DigitsEnd(s, i) ==
    IF i + 1 <= Len(s) /\ IsDigit(s[i + 1]) THEN DigitsEnd(s, i + 1) ELSE i
RECURSIVE DigitsVal(_, _, _)
DigitsVal(s, from, to) ==
    IF to < from THEN 0
    ELSE 10 * DigitsVal(s, from, to - 1) + DigitVal(s[to])

ParseNumber(s, i) ==
    LET neg == s[i] = "-"
        d == IF neg THEN i + 1 ELSE i
    IN  IF d > Len(s) \/ ~IsDigit(s[d]) THEN ParseFail
        ELSE LET e == IF s[d] = "0" THEN d ELSE DigitsEnd(s, d)
                 mag == DigitsVal(s, d, e)
             IN  ParseOk(JNum(IF neg THEN 0 - mag ELSE mag), e + 1)

RECURSIVE ParseValue(_, _), ParseElems(_, _, _), ParseMembers(_, _, _)
ParseValue(s, i0) ==
    LET i == SkipWs(s, i0)
    IN  IF i > Len(s) THEN ParseFail
        ELSE CASE s[i] = "{" ->
                    LET j == SkipWs(s, i + 1)
                    IN  IF j <= Len(s) /\ s[j] = "}"
                        THEN ParseOk(JObj(<<>>, <<>>), j + 1)
                        ELSE ParseMembers(s, j, JObj(<<>>, <<>>))
               [] s[i] = "[" ->
                    LET j == SkipWs(s, i + 1)
                    IN  IF j <= Len(s) /\ s[j] = "]"
                        THEN ParseOk(JArr(<<>>), j + 1)
                        ELSE ParseElems(s, j, <<>>)
               [] s[i] = QUOTE -> ParseString(s, i)
               [] s[i] = "-" \/ IsDigit(s[i]) -> ParseNumber(s, i)
               [] s[i] = "n" -> ParseLiteral(s, i, <<"n", "u", "l", "l">>, JNull)
               [] s[i] = "t" -> ParseLiteral(s, i, <<"t", "r", "u", "e">>, JBool(TRUE))
               [] s[i] = "f" -> ParseLiteral(s, i, <<"f", "a", "l", "s", "e">>, JBool(FALSE))
               [] OTHER -> ParseFail

\* the elements of an array from position i, after "[" or ","
ParseElems(s, i, acc) ==
    LET r == ParseValue(s, i)
    IN  IF ~r.ok THEN ParseFail
        ELSE LET j == SkipWs(s, r.pos)
             IN  IF j > Len(s) THEN ParseFail
                 ELSE IF s[j] = "," THEN ParseElems(s, j + 1, Append(acc, r.val))
                 ELSE IF s[j] = "]" THEN ParseOk(JArr(Append(acc, r.val)), j + 1)
                 ELSE ParseFail

\* the members of an object from position i, after "{" or ","
ParseMembers(s, i0, o) ==
    LET i == SkipWs(s, i0)
    IN  IF i > Len(s) \/ s[i] # QUOTE THEN ParseFail
        ELSE LET k == ParseString(s, i)
             IN  IF ~k.ok THEN ParseFail
                 ELSE LET c == SkipWs(s, k.pos)
                      IN  IF c > Len(s) \/ s[c] # ":" THEN ParseFail
                          ELSE LET r == ParseValue(s, c + 1)
                               IN  IF ~r.ok THEN ParseFail
                                   ELSE LET j == SkipWs(s, r.pos)
                                            o2 == ObjSet(o, k.val.s, r.val)
                                        IN  IF j > Len(s) THEN ParseFail
                                            ELSE IF s[j] = "," THEN ParseMembers(s, j + 1, o2)
                                            ELSE IF s[j] = "}" THEN ParseOk(o2, j + 1)
                                            ELSE ParseFail

\* JSON.parse: one value, nothing but whitespace after it
JsonParse(s) ==
    LET r == ParseValue(s, 1)
    IN  IF r.ok /\ SkipWs(s, r.pos) = Len(s) + 1 THEN r ELSE ParseFail

(***************************************************************************)
(* JSON text of a value, as a model reply or a request body spells it:     *)
(* pad is the whitespace written after each "{", "[", "," and ":" and      *)
(* before each closing bracket.                                            *)
(***************************************************************************)
RECURSIVE Stringify(_, _), StringifyElems(_, _), StringifyMembers(_, _, _)
Stringify(v, pad) ==
    CASE v.t = "null" -> <<"n", "u", "l", "l">>
      [] v.t = "bool" -> IF v.b THEN <<"t", "r", "u", "e">> ELSE <<"f", "a", "l", "s", "e">>
      [] v.t = "num" -> IF v.n < 0 THEN <<"-">> \o NatToChars(0 - v.n) ELSE NatToChars(v.n)
      [] v.t = "str" -> <<QUOTE>> \o v.s \o <<QUOTE>>
      [] v.t = "arr" -> <<"[">> \o pad \o StringifyElems(v.kids, pad) \o pad \o <<"]">>
      [] v.t = "obj" -> <<"{">> \o pad \o StringifyMembers(v.keys, v.kids, pad) \o pad \o <<"}">>
      [] OTHER -> <<>>
StringifyElems(kids, pad) ==
    IF Len(kids) = 0 THEN <<>>
    ELSE IF Len(kids) = 1 THEN Stringify(kids[1], pad)
    ELSE Stringify(kids[1], pad) \o <<",">> \o pad \o StringifyElems(Tail(kids), pad)
StringifyMembers(keys, kids, pad) ==
    IF Len(keys) = 0 THEN <<>>
    ELSE LET m == <<QUOTE>> \o keys[1] \o <<QUOTE, ":">> \o pad \o Stringify(kids[1], pad)
         IN  IF Len(keys) = 1 THEN m
             ELSE m \o <<",">> \o pad \o StringifyMembers(Tail(keys), Tail(kids), pad)

(***************************************************************************)
(* State.                                                                  *)
(***************************************************************************)
VARIABLES
    \* analyze handler: process environment and one request
    apiKey,          \* process.env.GEMINI_API_KEY
    pc,              \* stage of the request
    requestBody,     \* text of the request body
    imageUrl,        \* body.imageUrl
    mimeType,        \* MIME type sent with the image
    fetches,         \* calls of fetch(imageUrl) started
    invocations,     \* calls of model.generateContent started
    reply,           \* the parts the model's reply was written from
    text,            \* response.text()
    jsonText,        \* text handed to JSON.parse
    parsedResponse,  \* JSON.parse(jsonText)
    status,          \* status of the response, 0 while there is none
    responseBody,    \* body of the response
    responses,       \* responses returned
    \* upload handler: filesystem, clock and requests
    dirExists,       \* existsSync(UPLOAD_DIR)
    files,           \* contents of UPLOAD_DIR: stored filename -> bytes
    clock,           \* Date.now()
    upPc,            \* stage of each upload request
    upFile,          \* formData.get("file") of each request
    upSafeFilename,  \* generateSafeFilename(file.name) of each request
    upParts,         \* timestamp and random token each filename was made of
    upFsCalls,       \* filesystem writes (mkdir, writeFile) each request made
    upStatus,        \* status of each response, 0 while there is none
    upImageUrl,      \* imageUrl of each response
    \* client form
    selectedFile,
    previewUrl,
    uploadedImageUrl,
    isUploading,
    error,
    copySuccess,
    copyTimeout,     \* copyTimeoutRef.current is set
    inFlight         \* the file the pending fetch("/api/upload") carries

analyzeVars == <<apiKey, pc, requestBody, imageUrl, mimeType, fetches, invocations,
                 reply, text, jsonText, parsedResponse, status, responseBody, responses>>
uploadVars == <<dirExists, files, clock, upPc, upFile, upSafeFilename,
                upParts, upFsCalls, upStatus, upImageUrl>>
formVars == <<selectedFile, previewUrl, uploadedImageUrl, isUploading, error,
              copySuccess, copyTimeout, inFlight>>
vars == <<analyzeVars, uploadVars, formVars>>

(***************************************************************************)
(* Analyze handler: src/src/app/api/analyze/route.ts                       *)
(***************************************************************************)
K_imageUrl == <<"i", "m", "a", "g", "e", "U", "r", "l">>
K_items == <<"i", "t", "e", "m", "s">>
K_name == <<"n", "a", "m", "e">>
K_estimatedGrams == <<"e", "s", "t", "i", "m", "a", "t", "e", "d", "G", "r", "a", "m", "s">>
\* the backtick character (the grave accent cannot be written in a string here)
BACKTICK == "BACKTICK"
FENCE == <<BACKTICK, BACKTICK, BACKTICK>>

\* line 24: !imageUrl || typeof imageUrl !== "string" || imageUrl.trim() === ""
ImageUrlInvalid(u) ==
    ~Truthy(u) \/ TypeOf(u) # "string" \/ Trim(u.s) = <<>>


\* ApiKeyMissing with the credential check left out
ApiKeyMissing_Never(key) == FALSE

\* line 33: !apiKey
ApiKeyMissing(key) == ~Truthy(key)

\* lines 60-67: MIME type from the end of the URL
InferMimeType(url) ==
    IF EndsWith(ToLowerCase(url), <<".", "p", "n", "g">>) THEN "image/png"
    ELSE IF EndsWith(ToLowerCase(url), <<".", "w", "e", "b", "p">>) THEN "image/webp"
    ELSE IF EndsWith(ToLowerCase(url), <<".", "g", "i", "f">>) THEN "image/gif"
    ELSE "image/jpeg"


\* ExtractJson that drops the opening fence line and keeps the closing one
ExtractJson_KeepClosingFence(t) ==
    LET trimmed == Trim(t)
    IN  IF StartsWith(trimmed, FENCE)
        THEN Trim(Join(Tail(Split(trimmed, NL)), <<NL>>))
        ELSE trimmed

\* lines 101-113: the JSON text inside the model's reply
ExtractJson(t) ==
    LET trimmed == Trim(t)
    IN  IF StartsWith(trimmed, FENCE)
        THEN LET lines == Split(trimmed, NL)
                 shifted == Tail(lines)
                 popped == IF Len(shifted) > 0 /\ Trim(shifted[Len(shifted)]) = FENCE
                           THEN SubSeq(shifted, 1, Len(shifted) - 1)
                           ELSE shifted
             IN  Trim(Join(popped, <<NL>>))
        ELSE trimmed


\* ItemError that takes any estimatedGrams that is not a negative number
ItemError_AnyGrams(item) ==
    IF ~Truthy(item) \/ TypeOf(item) # "object"
    THEN "Invalid response structure: each item must be an object"
    ELSE IF TypeOf(GetProp(item, K_name)) # "string"
    THEN "Invalid response structure: each item must have a 'name' string property"
    ELSE LET g == GetProp(item, K_estimatedGrams)
         IN  IF g.t = "num" /\ g.n < 0
             THEN "Invalid response structure: 'estimatedGrams' must be a number >= 0 or null"
             ELSE ""

\* lines 144-161: the error of one element of items, "" when it passes
ItemError(item) ==
    IF ~Truthy(item) \/ TypeOf(item) # "object"
    THEN "Invalid response structure: each item must be an object"
    ELSE IF TypeOf(GetProp(item, K_name)) # "string"
    THEN "Invalid response structure: each item must have a 'name' string property"
    ELSE LET g == GetProp(item, K_estimatedGrams)
         IN  IF g.t # "null" /\ (TypeOf(g) # "number" \/ g.n < 0)
             THEN "Invalid response structure: 'estimatedGrams' must be a number >= 0 or null"
             ELSE ""

\* lines 143-162: the loop over items returns at the first element in error
RECURSIVE ItemsError(_)
ItemsError(items) ==
    IF Len(items) = 0 THEN ""
    ELSE IF ItemError(Head(items)) # "" THEN ItemError(Head(items))
    ELSE ItemsError(Tail(items))

\* lines 128-162: the error of the parsed reply, "" when it passes
ShapeError(p) ==
    IF ~Truthy(p) \/ TypeOf(p) # "object"
    THEN "Invalid response structure: expected an object"
    ELSE IF GetProp(p, K_items).t # "arr"
    THEN "Invalid response structure: expected 'items' to be an array"
    ELSE ItemsError(GetProp(p, K_items).kids)

(***************************************************************************)
(* Inputs of the analyze handler.                                          *)
(***************************************************************************)
\* GEMINI_API_KEY: unset, set to the empty string, set
ApiKeys == {JUndefined, JStr(<<>>), JStr(<<"k">>)}

ImageUrls ==
    { <<"u", "/", "a", ".", "P", "n", "g">>,
      <<"u", "/", "a", ".", "w", "e", "b", "p">>,
      <<"u", "/", "a", ".", "g", "i", "f">>,
      <<"u", "/", "a", ".", "j", "p", "g">> }

\* request bodies: objects with and without imageUrl, other JSON values,
\* and texts that are no JSON
RequestBodies ==
    { Stringify(JObj(<<K_imageUrl>>, <<v>>), <<>>) :
        v \in {JStr(u) : u \in ImageUrls}
              \cup {JStr(<<>>), JStr(<<" ">>), JStr(<<" ", "\t">>), JNum(5), JNum(0),
                    JNull, JBool(TRUE), JArr(<<>>)} }
    \cup { Stringify(v, <<>>) :
             v \in {JObj(<<>>, <<>>), JObj(<<K_name>>, <<JStr(<<"a">>)>>), JNull, JNum(5),
                    JArr(<<>>), JStr(<<"s">>), JBool(FALSE)} }
    \cup { <<>>, <<"x">>, <<"{">> }

FetchOutcomes == {"ok", "not ok", "fetch rejects", "arrayBuffer rejects"}

FoodItem(name, grams) == JObj(<<K_name, K_estimatedGrams>>, <<name, grams>>)

\* elements a reply may put in items: well-formed ones and malformed ones
ReplyItems ==
    { FoodItem(JStr(<<"a">>), JNum(150)),
      FoodItem(JStr(<<"b">>), JNull),
      FoodItem(JStr(<<>>), JNum(0)),
      FoodItem(JStr(<<"a">>), JStr(<<"1", "5", "0">>)),
      FoodItem(JStr(<<"a">>), JNum(0 - 1)),
      JObj(<<K_name>>, <<JStr(<<"a">>)>>),
      FoodItem(JNum(7), JNull),
      JNull,
      JNum(5) }

ReplyItemLists == UNION {[1..n -> ReplyItems] : n \in 0..MaxItems}

\* the JSON values a reply may spell
ReplyValues ==
    { JObj(<<K_items>>, <<JArr(l)>>) : l \in ReplyItemLists }
    \cup { JNull, JNum(5), JStr(<<"a">>), JArr(<<>>), JObj(<<>>, <<>>),
           JObj(<<K_items>>, <<JNull>>), JObj(<<K_items>>, <<JObj(<<>>, <<>>)>>),
           JObj(<<K_name, K_items>>, <<JStr(<<"a">>), JArr(<<>>)>>) }

\* how a reply lays its JSON out: bare or in a markdown fence, the
\* whitespace around it, the language tag after the opening fence, what
\* separates the opening fence line from the JSON (open) and the JSON from
\* the closing fence (close), and the whitespace inside the JSON (pad)
Layout(fenced, lead, tag, open, close, trail, pad) ==
    [fenced |-> fenced, lead |-> lead, tag |-> tag, open |-> open,
     close |-> close, trail |-> trail, pad |-> pad]
TagJson == <<"j", "s", "o", "n">>
ReplyLayouts ==
    { Layout(FALSE, <<>>, <<>>, <<>>, <<>>, <<>>, <<>>),
      Layout(FALSE, <<NL>>, <<>>, <<>>, <<>>, <<SPACE, NL>>, <<NL, SPACE>>),
      Layout(TRUE, <<>>, TagJson, <<NL>>, <<NL>>, <<>>, <<>>),
      Layout(TRUE, <<SPACE>>, TagJson, <<NL>>, <<NL>>, <<SPACE>>, <<NL, SPACE>>),
      Layout(TRUE, <<>>, <<>>, <<NL>>, <<NL>>, <<NL>>, <<SPACE>>),
      Layout(TRUE, <<>>, TagJson, <<SPACE, NL>>, <<NL, SPACE>>, <<>>, <<>>),
      Layout(TRUE, <<>>, TagJson, <<NL>>, <<>>, <<>>, <<>>),
      Layout(TRUE, <<>>, TagJson, <<SPACE>>, <<SPACE>>, <<>>, <<>>) }

\* texts a reply may carry where JSON was asked for that are no JSON
ReplyProse == { <<>>, <<"o", "k">>, <<"{", QUOTE, "i", "t">> }

NoReply ==
    [sent |-> FALSE, layout |-> Layout(FALSE, <<>>, <<>>, <<>>, <<>>, <<>>, <<>>), J |-> <<>>]
Replies ==
    { [sent |-> TRUE, layout |-> l, J |-> Stringify(v, l.pad)] :
        l \in ReplyLayouts, v \in ReplyValues }
    \cup { [sent |-> TRUE, layout |-> l, J |-> j] : l \in ReplyLayouts, j \in ReplyProse }

\* the reply as the model sends it
ReplyText(r) ==
    IF r.layout.fenced
    THEN r.layout.lead \o FENCE \o r.layout.tag \o r.layout.open \o r.J
         \o r.layout.close \o FENCE \o r.layout.trail
    ELSE r.layout.lead \o r.J \o r.layout.trail

(***************************************************************************)
(* The analyze request, stage by stage (POST, lines 17-173).               *)
(***************************************************************************)
AnalyzeInit ==
    /\ apiKey \in ApiKeys
    /\ pc = "Idle"
    /\ requestBody = <<>>
    /\ imageUrl = JUndefined
    /\ mimeType = ""
    /\ fetches = 0
    /\ invocations = 0
    /\ reply = NoReply
    /\ text = <<>>
    /\ jsonText = <<>>
    /\ parsedResponse = JUndefined
    /\ status = 0
    /\ responseBody = [error |-> "", value |-> JUndefined]
    /\ responses = 0

\* NextResponse.json({ error }, { status }) and NextResponse.json(value)
Reject(st, message) ==
    /\ status' = st
    /\ responseBody' = [error |-> message, value |-> JUndefined]
    /\ pc' = "Responding"
Accept(value) ==
    /\ status' = 200
    /\ responseBody' = [error |-> "", value |-> value]
    /\ pc' = "Responding"

\* a request arrives
Receive ==
    /\ pc = "Idle"
    /\ \E body \in RequestBodies : requestBody' = body
    /\ pc' = "Validating"
    /\ UNCHANGED <<apiKey, imageUrl, mimeType, fetches, invocations, reply, text,
                   jsonText, parsedResponse, status, responseBody, responses>>
    /\ UNCHANGED <<uploadVars, formVars>>

\* lines 20-38: request.json(), the imageUrl check, the credential check;
\* an exception of request.json() or of the destructuring is caught at
\* line 166
Validate ==
    /\ pc = "Validating"
    /\ LET body == JsonParse(requestBody)
       IN  IF ~body.ok
           THEN Reject(500, "Unexpected token in JSON") /\ UNCHANGED imageUrl
           ELSE IF body.val.t = "null"
           THEN Reject(500, "Cannot destructure property 'imageUrl' of 'body' as it is null.")
                /\ UNCHANGED imageUrl
           ELSE /\ imageUrl' = GetProp(body.val, K_imageUrl)
                /\ IF ImageUrlInvalid(imageUrl')
                   THEN Reject(400, "imageUrl is required and must be a non-empty string")
                   ELSE IF ApiKeyMissing(apiKey)
                   THEN Reject(500, "GEMINI_API_KEY environment variable is not set")
                   ELSE pc' = "Fetching" /\ UNCHANGED <<status, responseBody>>
    /\ UNCHANGED <<apiKey, requestBody, mimeType, fetches, invocations, reply, text,
                   jsonText, parsedResponse, responses>>
    /\ UNCHANGED <<uploadVars, formVars>>


\* Fetch that tries once more after a failed fetch
Fetch_Retry ==
    /\ pc = "Fetching"
    /\ fetches' = fetches + 1
    /\ \E outcome \in FetchOutcomes :
         IF outcome = "ok"
         THEN pc' = "Encoding" /\ UNCHANGED <<status, responseBody>>
         ELSE IF fetches = 0
         THEN UNCHANGED <<pc, status, responseBody>>
         ELSE Reject(400, "Failed to fetch image from URL")
    /\ UNCHANGED <<apiKey, requestBody, imageUrl, mimeType, invocations, reply, text,
                   jsonText, parsedResponse, responses>>
    /\ UNCHANGED <<uploadVars, formVars>>

\* lines 41-54: fetch(imageUrl) and arrayBuffer(); every failure is a 400
Fetch ==
    /\ pc = "Fetching"
    /\ fetches' = fetches + 1
    /\ \E outcome \in FetchOutcomes :
         IF outcome = "ok"
         THEN pc' = "Encoding" /\ UNCHANGED <<status, responseBody>>
         ELSE Reject(400, "Failed to fetch image from URL")
    /\ UNCHANGED <<apiKey, requestBody, imageUrl, mimeType, invocations, reply, text,
                   jsonText, parsedResponse, responses>>
    /\ UNCHANGED <<uploadVars, formVars>>

\* lines 56-67: base64 of the bytes and the MIME type
Encode ==
    /\ pc = "Encoding"
    /\ mimeType' = InferMimeType(imageUrl.s)
    /\ pc' = "InvokingModel"
    /\ UNCHANGED <<apiKey, requestBody, imageUrl, fetches, invocations, reply, text,
                   jsonText, parsedResponse, status, responseBody, responses>>
    /\ UNCHANGED <<uploadVars, formVars>>

\* lines 69-98: model.generateContent(...) and response.text(); an
\* exception is caught at line 166
InvokeModel ==
    /\ pc = "InvokingModel"
    /\ invocations' = invocations + 1
    /\ \/ Reject(500, "generateContent failed") /\ UNCHANGED <<reply, text>>
       \/ \E r \in Replies :
            /\ reply' = r
            /\ text' = ReplyText(r)
            /\ pc' = "Extracting"
            /\ UNCHANGED <<status, responseBody>>
    /\ UNCHANGED <<apiKey, requestBody, imageUrl, mimeType, fetches, jsonText,
                   parsedResponse, responses>>
    /\ UNCHANGED <<uploadVars, formVars>>

\* lines 100-113
Extract ==
    /\ pc = "Extracting"
    /\ jsonText' = ExtractJson(text)
    /\ pc' = "Parsing"
    /\ UNCHANGED <<apiKey, requestBody, imageUrl, mimeType, fetches, invocations, reply,
                   text, parsedResponse, status, responseBody, responses>>
    /\ UNCHANGED <<uploadVars, formVars>>

\* lines 115-125
Parse ==
    /\ pc = "Parsing"
    /\ LET r == JsonParse(jsonText)
       IN  IF r.ok
           THEN /\ parsedResponse' = r.val
                /\ pc' = "ValidatingShape"
                /\ UNCHANGED <<status, responseBody>>
           ELSE /\ Reject(500, "Failed to parse response as valid JSON")
                /\ UNCHANGED parsedResponse
    /\ UNCHANGED <<apiKey, requestBody, imageUrl, mimeType, fetches, invocations, reply,
                   text, jsonText, responses>>
    /\ UNCHANGED <<uploadVars, formVars>>

\* lines 127-165
ValidateShape ==
    /\ pc = "ValidatingShape"
    /\ IF ShapeError(parsedResponse) # ""
       THEN Reject(500, ShapeError(parsedResponse))
       ELSE Accept(parsedResponse)
    /\ UNCHANGED <<apiKey, requestBody, imageUrl, mimeType, fetches, invocations, reply,
                   text, jsonText, parsedResponse, responses>>
    /\ UNCHANGED <<uploadVars, formVars>>

\* the handler returns its response
Respond ==
    /\ pc = "Responding"
    /\ responses' = responses + 1
    /\ pc' = "Done"
    /\ UNCHANGED <<apiKey, requestBody, imageUrl, mimeType, fetches, invocations, reply,
                   text, jsonText, parsedResponse, status, responseBody>>
    /\ UNCHANGED <<uploadVars, formVars>>

AnalyzeNext ==
    \/ Receive \/ Validate \/ Fetch \/ Encode \/ InvokeModel
    \/ Extract \/ Parse \/ ValidateShape \/ Respond

(***************************************************************************)
(* Upload handler: src/src/app/api/upload/route.ts                         *)
(***************************************************************************)
ALLOWED_TYPES == {"image/png", "image/jpeg", "image/jpg", "image/webp", "image/gif"}

IsAlnum(c) == IsLower(c) \/ IsDigit(c)

\* the index of the last "." of s, 0 when there is none
LastDot(s) ==
    IF \E i \in 1..Len(s) : s[i] = "."
    THEN CHOOSE i \in 1..Len(s) : s[i] = "." /\ \A j \in (i+1)..Len(s) : s[j] # "."
    ELSE 0

\* line 25: originalName.split(".").pop()?.toLowerCase() || ""
FileExtension(originalName) ==
    ToLowerCase(SubSeq(originalName, LastDot(originalName) + 1, Len(originalName)))

\* line 29: replace(/\.[^/.]+$/, ""): a final "." followed by one or more
\* characters other than "/" and "." is cut off
RemoveExtension(s) ==
    LET d == LastDot(s)
    IN  IF d > 0 /\ d < Len(s) /\ \A j \in (d+1)..Len(s) : s[j] # "/"
        THEN SubSeq(s, 1, d - 1)
        ELSE s

\* line 31: replace(/[^a-z0-9]+/g, "-"): each run of other characters
\* becomes one hyphen
RECURSIVE ReplaceNonAlnum(_)
ReplaceNonAlnum(s) ==
    IF Len(s) = 0 THEN <<>>
    ELSE IF IsAlnum(s[1]) THEN <<s[1]>> \o ReplaceNonAlnum(Tail(s))
    ELSE IF Len(s) > 1 /\ ~IsAlnum(s[2]) THEN ReplaceNonAlnum(Tail(s))
    ELSE <<"-">> \o ReplaceNonAlnum(Tail(s))

\* line 32: replace(/^-+|-+$/g, "")
RECURSIVE TrimHyphens(_)
TrimHyphens(s) ==
    IF Len(s) > 0 /\ s[1] = "-" THEN TrimHyphens(Tail(s))
    ELSE IF Len(s) > 0 /\ s[Len(s)] = "-" THEN TrimHyphens(SubSeq(s, 1, Len(s) - 1))
    ELSE s

\* lines 28-32
BaseName(originalName) ==
    TrimHyphens(ReplaceNonAlnum(ToLowerCase(RemoveExtension(originalName))))


\* GenerateSafeFilename without the random token
GenerateSafeFilename_NoRandom(originalName, timestamp, random) ==
    BaseName(originalName) \o <<"-">> \o NatToChars(timestamp)
    \o <<".">> \o FileExtension(originalName)

\* lines 20-35, with Date.now() and the base-36 token of Math.random() as
\* parameters
GenerateSafeFilename(originalName, timestamp, random) ==
    BaseName(originalName) \o <<"-">> \o NatToChars(timestamp) \o <<"-">> \o random
    \o <<".">> \o FileExtension(originalName)

(***************************************************************************)
(* Inputs of the upload handler.                                           *)
(***************************************************************************)
Uploads == {"u1", "u2"}
NoFile == [present |-> FALSE, name |-> <<>>, type |-> "", bytes |-> ""]
File(name, type, bytes) == [present |-> TRUE, name |-> name, type |-> type, bytes |-> bytes]

FileNames ==
    { <<"M", "y", " ", "L", "!", "!", " ", ".", "P", "N", "G">>,
      <<"a", ".", "g", "i", "f">>,
      <<"M", "y", " ", "L">>,
      <<"a", ".", "p", "/", "g">> }
FileTypes == {"image/png", "image/gif", "application/pdf"}

\* Math.random().toString(36).substring(2, 9): digits and lower-case letters
RandomTokens == { <<"k", "3">>, <<"9">> }

\* the file field of the form data of request p: absent, or a file
UploadFiles(p) ==
    {NoFile} \cup {File(n, t, p) : n \in FileNames, t \in FileTypes}

UploadInit ==
    /\ dirExists \in BOOLEAN
    /\ files = <<>>
    /\ clock = 0
    /\ upPc = [p \in Uploads |-> "Idle"]
    /\ upFile = [p \in Uploads |-> NoFile]
    /\ upSafeFilename = [p \in Uploads |-> <<>>]
    /\ upParts = [p \in Uploads |-> [timestamp |-> 0, random |-> <<>>]]
    /\ upFsCalls = [p \in Uploads |-> {}]
    /\ upStatus = [p \in Uploads |-> 0]
    /\ upImageUrl = [p \in Uploads |-> <<>>]

UploadRespond(p, st) ==
    /\ upStatus' = [upStatus EXCEPT ![p] = st]
    /\ upPc' = [upPc EXCEPT ![p] = "Done"]

\* Date.now() moves on
Tick ==
    /\ clock < MaxClock
    /\ clock' = clock + 1
    /\ UNCHANGED <<dirExists, files, upPc, upFile, upSafeFilename, upParts, upFsCalls,
                   upStatus, upImageUrl>>
    /\ UNCHANGED <<analyzeVars, formVars>>

\* a request arrives
UploadReceive(p) ==
    /\ upPc[p] = "Idle"
    /\ \E f \in UploadFiles(p) : upFile' = [upFile EXCEPT ![p] = f]
    /\ upPc' = [upPc EXCEPT ![p] = "EnsureDir"]
    /\ UNCHANGED <<dirExists, files, clock, upSafeFilename, upParts, upFsCalls,
                   upStatus, upImageUrl>>
    /\ UNCHANGED <<analyzeVars, formVars>>

\* lines 13-17, 40: existsSync(UPLOAD_DIR), and mkdir started when it is
\* missing
EnsureUploadDir(p) ==
    /\ upPc[p] = "EnsureDir"
    /\ IF dirExists
       THEN upPc' = [upPc EXCEPT ![p] = "FormData"] /\ UNCHANGED upFsCalls
       ELSE /\ upPc' = [upPc EXCEPT ![p] = "Mkdir"]
            /\ upFsCalls' = [upFsCalls EXCEPT ![p] = @ \cup {"mkdir"}]
    /\ UNCHANGED <<dirExists, files, clock, upFile, upSafeFilename, upParts,
                   upStatus, upImageUrl>>
    /\ UNCHANGED <<analyzeVars, formVars>>

\* line 15: mkdir(UPLOAD_DIR, { recursive: true }) settles; a failure is
\* caught at line 79
Mkdir(p) ==
    /\ upPc[p] = "Mkdir"
    /\ \E ok \in BOOLEAN :
         IF ok
         THEN /\ dirExists' = TRUE
              /\ upPc' = [upPc EXCEPT ![p] = "FormData"]
              /\ UNCHANGED upStatus
         ELSE UploadRespond(p, 500) /\ UNCHANGED dirExists
    /\ UNCHANGED <<files, clock, upFile, upSafeFilename, upParts, upFsCalls, upImageUrl>>
    /\ UNCHANGED <<analyzeVars, formVars>>

\* lines 43-59: the file field and its type
CheckFile(p) ==
    /\ upPc[p] = "FormData"
    /\ IF ~upFile[p].present THEN UploadRespond(p, 400)
       ELSE IF upFile[p].type \notin ALLOWED_TYPES THEN UploadRespond(p, 400)
       ELSE upPc' = [upPc EXCEPT ![p] = "Generate"] /\ UNCHANGED upStatus
    /\ UNCHANGED <<dirExists, files, clock, upFile, upSafeFilename, upParts, upFsCalls,
                   upImageUrl>>
    /\ UNCHANGED <<analyzeVars, formVars>>

\* lines 62-70: the bytes are read, the filename generated, writeFile started
Generate(p) ==
    /\ upPc[p] = "Generate"
    /\ \E random \in RandomTokens :
         /\ upParts' = [upParts EXCEPT ![p] = [timestamp |-> clock, random |-> random]]
         /\ upSafeFilename' =
              [upSafeFilename EXCEPT ![p] = GenerateSafeFilename(upFile[p].name, clock, random)]
    /\ upFsCalls' = [upFsCalls EXCEPT ![p] = @ \cup {"writeFile"}]
    /\ upPc' = [upPc EXCEPT ![p] = "Writing"]
    /\ UNCHANGED <<dirExists, files, clock, upFile, upStatus, upImageUrl>>
    /\ UNCHANGED <<analyzeVars, formVars>>

\* writeFile creates or replaces the file of that name in UPLOAD_DIR
WriteFile(fs, name, bytes) ==
    [n \in (DOMAIN fs) \cup {name} |-> IF n = name THEN bytes ELSE fs[n]]

\* lines 70-78: writeFile settles, then the response; a failure is caught
\* at line 79.  A name with "/" in it names a file in a directory that
\* does not exist, and writeFile fails.
Write(p) ==
    /\ upPc[p] = "Writing"
    /\ \E ok \in BOOLEAN :
         IF ok /\ dirExists /\ \A i \in 1..Len(upSafeFilename[p]) : upSafeFilename[p][i] # "/"
         THEN /\ files' = WriteFile(files, upSafeFilename[p], upFile[p].bytes)
              /\ upImageUrl' = [upImageUrl EXCEPT ![p] =
                                  <<"/", "u", "p", "l", "o", "a", "d", "s", "/">>
                                  \o upSafeFilename[p]]
              /\ UploadRespond(p, 200)
         ELSE UploadRespond(p, 500) /\ UNCHANGED <<files, upImageUrl>>
    /\ UNCHANGED <<dirExists, clock, upFile, upSafeFilename, upParts, upFsCalls>>
    /\ UNCHANGED <<analyzeVars, formVars>>

UploadNext ==
    \/ Tick
    \/ \E p \in Uploads :
         \/ UploadReceive(p) \/ EnsureUploadDir(p) \/ Mkdir(p)
         \/ CheckFile(p) \/ Generate(p) \/ Write(p)

(***************************************************************************)
(* Client form: src/src/app/page.tsx                                       *)
(***************************************************************************)
None == "none"
FormFiles == {"fileA", "fileB", "fileC"}
\* URL.createObjectURL(file)
ObjectUrl(f) == <<"blob:", f>>
\* the imageUrl the upload handler answers for a file
UploadUrl(f) == <<"/uploads/", f>>
SettleOutcomes == {"ok", "not ok", "no imageUrl", "fetch rejects"}

FormInit ==
    /\ selectedFile = None
    /\ previewUrl = None
    /\ uploadedImageUrl = None
    /\ isUploading = FALSE
    /\ error = None
    /\ copySuccess = FALSE
    /\ copyTimeout = FALSE
    /\ inFlight = None

\* lines 33-55: the file input changes; createObjectURL may throw
HandleFileChange ==
    \E f \in FormFiles, previewOk \in BOOLEAN :
        /\ selectedFile' = f
        /\ uploadedImageUrl' = None
        /\ copySuccess' = FALSE
        /\ IF previewOk
           THEN previewUrl' = ObjectUrl(f) /\ error' = None
           ELSE previewUrl' = None /\ error' = "Failed to create image preview"
        /\ UNCHANGED <<isUploading, copyTimeout, inFlight>>
        /\ UNCHANGED <<analyzeVars, uploadVars>>

\* lines 57-73 and 136-138: the button is enabled with a file selected and
\* no upload pending; the click sends the selected file
HandleUpload ==
    /\ selectedFile # None
    /\ ~isUploading
    /\ isUploading' = TRUE
    /\ error' = None
    /\ inFlight' = selectedFile
    /\ UNCHANGED <<selectedFile, previewUrl, uploadedImageUrl, copySuccess, copyTimeout>>
    /\ UNCHANGED <<analyzeVars, uploadVars>>

\* lines 75-91: the pending fetch settles
UploadSettles ==
    /\ inFlight # None
    /\ \E outcome \in SettleOutcomes :
         CASE outcome = "ok" ->
                uploadedImageUrl' = UploadUrl(inFlight) /\ UNCHANGED error
           [] outcome = "not ok" ->
                error' = "Upload failed" /\ UNCHANGED uploadedImageUrl
           [] outcome = "no imageUrl" ->
                /\ error' = "Upload succeeded but no imageUrl was returned"
                /\ UNCHANGED uploadedImageUrl
           [] OTHER ->
                error' = "An error occurred" /\ UNCHANGED uploadedImageUrl
    /\ isUploading' = FALSE
    /\ inFlight' = None
    /\ UNCHANGED <<selectedFile, previewUrl, copySuccess, copyTimeout>>
    /\ UNCHANGED <<analyzeVars, uploadVars>>

\* lines 165-184: the copy button, shown with an uploaded URL
HandleCopy ==
    /\ uploadedImageUrl # None
    /\ \E ok \in BOOLEAN :
         IF ok
         THEN copySuccess' = TRUE /\ error' = None /\ copyTimeout' = TRUE
         ELSE /\ error' = "Failed to copy URL to clipboard"
              /\ copySuccess' = FALSE
              /\ UNCHANGED copyTimeout
    /\ UNCHANGED <<selectedFile, previewUrl, uploadedImageUrl, isUploading, inFlight>>
    /\ UNCHANGED <<analyzeVars, uploadVars>>

\* lines 176-179: the timeout of the copy button fires
CopyTimeoutFires ==
    /\ copyTimeout
    /\ copySuccess' = FALSE
    /\ copyTimeout' = FALSE
    /\ UNCHANGED <<selectedFile, previewUrl, uploadedImageUrl, isUploading, error, inFlight>>
    /\ UNCHANGED <<analyzeVars, uploadVars>>

FormNext ==
    \/ HandleFileChange \/ HandleUpload \/ UploadSettles \/ HandleCopy \/ CopyTimeoutFires

(***************************************************************************)
(* Specifications: one per component; the other components stay as         *)
(* constructed.                                                            *)
(***************************************************************************)
UploadQuiet == UploadInit /\ dirExists = TRUE
AnalyzeQuiet == AnalyzeInit /\ apiKey = JUndefined

InitAnalyze == AnalyzeInit /\ UploadQuiet /\ FormInit
SpecAnalyze == InitAnalyze /\ [][AnalyzeNext]_vars

InitUpload == UploadInit /\ AnalyzeQuiet /\ FormInit
SpecUpload == InitUpload /\ [][UploadNext]_vars

InitForm == FormInit /\ AnalyzeQuiet /\ UploadQuiet
SpecForm == InitForm /\ [][FormNext]_vars

(***************************************************************************)
(* Vocabulary of the properties.                                           *)
(***************************************************************************)
\* the FoodItem shape: an object with a string name and an estimatedGrams
\* that is null or a number >= 0
IsFoodItem(e) ==
    /\ e.t = "obj"
    /\ GetProp(e, K_name).t = "str"
    /\ \/ GetProp(e, K_estimatedGrams).t = "null"
       \/ GetProp(e, K_estimatedGrams).t = "num" /\ GetProp(e, K_estimatedGrams).n >= 0

\* the AnalysisResult shape: an object whose items is an array of FoodItem
IsAnalysisResult(v) ==
    /\ v.t = "obj"
    /\ GetProp(v, K_items).t = "arr"
    /\ \A i \in 1..Len(GetProp(v, K_items).kids) : IsFoodItem(GetProp(v, K_items).kids[i])

\* the request body carries a non-blank string imageUrl
HasImageUrl(bodyText) ==
    LET b == JsonParse(bodyText)
    IN  /\ b.ok
        /\ b.val.t = "obj"
        /\ GetProp(b.val, K_imageUrl).t = "str"
        /\ Trim(GetProp(b.val, K_imageUrl).s) # <<>>

Answered == pc \in {"Responding", "Done"}
\* the reply of the model went through response extraction
Extracted == reply.sent /\ pc # "Extracting"
\* the JSON.parse of the extracted text succeeded
Parsed == parsedResponse # JUndefined

(***************************************************************************)
(* C1.  Shape validation is fail-closed: the answer is 200 only if the     *)
(* extracted text parses to an object whose items is an array of elements  *)
(* that each are an object with a string name and an estimatedGrams that   *)
(* is null or a number >= 0; one element that is not makes the answer 500, *)
(* nothing is filtered out and no type is coerced: a 200 carries the       *)
(* parsed value as it is.                                                  *)
(***************************************************************************)
C1_ShapeFailClosed ==
    /\ status = 200 =>
         /\ JsonParse(jsonText).ok
         /\ IsAnalysisResult(JsonParse(jsonText).val)
         /\ responseBody.value = JsonParse(jsonText).val
    /\ (Answered /\ Parsed /\ ~IsAnalysisResult(parsedResponse)) =>
         /\ status = 500
         /\ responseBody.value = JUndefined

\* a reply whose second element carries estimatedGrams "150" was answered 500
C1_Witness ==
    /\ pc = "Done"
    /\ status = 500
    /\ Parsed
    /\ GetProp(parsedResponse, K_items).t = "arr"
    /\ Len(GetProp(parsedResponse, K_items).kids) = 2
    /\ IsFoodItem(GetProp(parsedResponse, K_items).kids[1])
    /\ GetProp(GetProp(parsedResponse, K_items).kids[2], K_estimatedGrams)
         = JStr(<<"1", "5", "0">>)

(***************************************************************************)
(* C2.  A request whose body has imageUrl missing, non-string or blank,    *)
(* bodies that are JSON null or no JSON at all included, is answered 400.  *)
(***************************************************************************)
C2_NoImageUrlIs400 ==
    (Answered /\ ~HasImageUrl(requestBody)) => status = 400

(***************************************************************************)
(* C6.  With a non-blank string imageUrl and the API credential absent     *)
(* from the environment the answer is 500, and neither the image fetch nor *)
(* the model invocation is started.                                        *)
(***************************************************************************)
C6_NoCredentialIs500 ==
    (pc \notin {"Idle", "Validating"} /\ HasImageUrl(requestBody) /\ apiKey = JUndefined) =>
        /\ Answered
        /\ status = 500
        /\ fetches = 0
        /\ invocations = 0

C6_Witness ==
    /\ pc = "Done"
    /\ HasImageUrl(requestBody)
    /\ apiKey = JUndefined
    /\ status = 500
    /\ responses = 1

(***************************************************************************)
(* C7.  A request moves through Validating, Fetching, Encoding, Invoking   *)
(* Model, Extracting, Parsing, Validating Shape, Responding in that order: *)
(* a stage starts only when the stage before it succeeded, a failure ends  *)
(* the pipeline with its error response, the image fetch and the model     *)
(* invocation happen at most once, the model is invoked only after a       *)
(* successful fetch, and the request ends with exactly one response: a     *)
(* request at Responding has its status and can return it, a finished      *)
(* request returned one response and an unfinished one none.               *)
(***************************************************************************)
Stages == <<"Validating", "Fetching", "Encoding", "InvokingModel", "Extracting",
            "Parsing", "ValidatingShape", "Responding">>
C7_Step ==
    /\ pc' # pc =>
         \/ pc = "Idle" /\ pc' = "Validating"
         \/ \E i \in 1..(Len(Stages) - 1) : pc = Stages[i] /\ pc' = Stages[i + 1]
         \/ pc \in Range(Stages) /\ pc' = "Responding" /\ status' \in {400, 500}
         \/ pc = "Responding" /\ pc' = "Done"
    /\ fetches' # fetches => pc = "Fetching" /\ fetches = 0
    /\ invocations' # invocations => pc = "InvokingModel" /\ invocations = 0 /\ fetches = 1
    /\ responses' # responses => pc = "Responding" /\ responses = 0 /\ status # 0
    /\ pc' = "InvokingModel" /\ pc # pc' => pc = "Encoding" /\ fetches = 1
C7_State ==
    /\ fetches <= 1
    /\ invocations <= 1
    /\ responses = IF pc = "Done" THEN 1 ELSE 0
    /\ pc = "Responding" => status # 0 /\ ENABLED Respond
C7_StagesInOrder == [](C7_State) /\ [][C7_Step]_vars

\* a request that went through every stage and was answered 200
C7_Witness ==
    /\ pc = "Done"
    /\ status = 200
    /\ fetches = 1
    /\ invocations = 1
    /\ responses = 1

(***************************************************************************)
(* C8.  Every FoodItem of a 200 answer has a non-empty name and an         *)
(* estimatedGrams that is null or a number >= 0.                           *)
(***************************************************************************)
C8_NamesNonEmpty ==
    status = 200 =>
        /\ IsAnalysisResult(responseBody.value)
        /\ \A i \in 1..Len(GetProp(responseBody.value, K_items).kids) :
             Len(GetProp(GetProp(responseBody.value, K_items).kids[i], K_name).s) > 0

(***************************************************************************)
(* C9.  Fence extraction.  As claimed: for every reply that begins with    *)
(* the fence, an optional language tag, then the JSON text J, and ends     *)
(* with a closing fence, the text handed to the parser is J trimmed, and a *)
(* shape-valid J is answered 200 with the parse of J; a reply that does    *)
(* not begin with a fence is handed over trimmed and otherwise unchanged.  *)
(***************************************************************************)
FenceResult(whenFenced) ==
    Extracted =>
        /\ (reply.layout.fenced /\ whenFenced) =>
             /\ jsonText = Trim(reply.J)
             /\ (pc = "Done" /\ JsonParse(Trim(reply.J)).ok
                 /\ IsAnalysisResult(JsonParse(Trim(reply.J)).val)) =>
                    /\ status = 200
                    /\ responseBody.value = JsonParse(Trim(reply.J)).val
        /\ ~StartsWith(Trim(text), FENCE) => jsonText = Trim(text)

C9_FenceStripped == FenceResult(TRUE)

(***************************************************************************)
(* C9 as amended: the same, for the replies whose opening fence (with its  *)
(* tag) is a line of its own and whose closing fence is a line of its own. *)
(***************************************************************************)
FenceOnOwnLines ==
    NL \in Range(reply.layout.open) /\ NL \in Range(reply.layout.close)
C9_FenceOnOwnLinesStripped == FenceResult(FenceOnOwnLines)

\* the reply of the specification's example, in whitespace and with the tag
\* json, around a result of one item, was answered 200
C9_Witness ==
    /\ pc = "Done"
    /\ status = 200
    /\ reply.layout.fenced
    /\ FenceOnOwnLines
    /\ reply.layout.lead # <<>>
    /\ reply.layout.tag = TagJson
    /\ text # jsonText
    /\ Len(GetProp(responseBody.value, K_items).kids) = 1

(***************************************************************************)
(* C3.  An upload whose file has a content type outside the allow-list is  *)
(* answered 400 and makes no filesystem write at all.                      *)
(***************************************************************************)
C3_DisallowedTypeWritesNothing ==
    \A p \in Uploads :
        (upPc[p] = "Done" /\ upFile[p].present /\ upFile[p].type \notin ALLOWED_TYPES) =>
            /\ upStatus[p] = 400
            /\ upFsCalls[p] = {}

(***************************************************************************)
(* C4.  For an upload with an allowed type and any original filename the   *)
(* generated filename has no path separator and no character outside       *)
(* [a-z0-9-] apart from the single dot before the extension.               *)
(***************************************************************************)
IsSafeFilename(n) ==
    /\ Cardinality({i \in 1..Len(n) : n[i] = "."}) = 1
    /\ \A i \in 1..Len(n) : IsAlnum(n[i]) \/ n[i] = "-" \/ n[i] = "."
Named(p) == "writeFile" \in upFsCalls[p]
C4_FilenameSafe ==
    \A p \in Uploads : Named(p) => IsSafeFilename(upSafeFilename[p])

(***************************************************************************)
(* C5.  As claimed: any two successful uploads, in any interleaving, have  *)
(* different generated filenames, and a stored file never changes.         *)
(***************************************************************************)
C5_NeverCollide ==
    \A p, q \in Uploads :
        (p # q /\ upStatus[p] = 200 /\ upStatus[q] = 200) =>
            upSafeFilename[p] # upSafeFilename[q]

(***************************************************************************)
(* C5 as amended: two uploads whose timestamps or random tokens differ     *)
(* have different generated filenames, whatever their original names; a    *)
(* stored file is never deleted, and it is replaced only by an upload that *)
(* drew the same timestamp and the same random token as the upload that    *)
(* stored it.                                                              *)
(***************************************************************************)
SameParts(p, q) == upParts[p] = upParts[q]
C5_State ==
    \A p, q \in Uploads :
        (p # q /\ Named(p) /\ Named(q) /\ ~SameParts(p, q)) =>
            upSafeFilename[p] # upSafeFilename[q]
C5_Step ==
    \A n \in DOMAIN files :
        /\ n \in DOMAIN files'
        /\ files'[n] # files[n] =>
             \E p, q \in Uploads :
                 /\ p # q
                 /\ files[n] = upFile[p].bytes /\ upSafeFilename[p] = n
                 /\ files'[n] = upFile[q].bytes /\ upSafeFilename[q] = n
                 /\ SameParts(p, q)
C5_DistinctPartsNeverCollide == [](C5_State) /\ [][C5_Step]_vars

\* two uploads of the same original name in the same millisecond, with
\* different tokens, both stored
C5_Witness ==
    /\ upStatus["u1"] = 200
    /\ upStatus["u2"] = 200
    /\ upFile["u1"].name = upFile["u2"].name
    /\ upParts["u1"].timestamp = upParts["u2"].timestamp
    /\ upParts["u1"].random # upParts["u2"].random
    /\ Cardinality(DOMAIN files) = 2

(***************************************************************************)
(* C10.  Whenever the form shows an uploaded URL, it is the URL the upload *)
(* of the currently selected file returned.                                *)
(***************************************************************************)
C10_UrlOfSelectedFile ==
    uploadedImageUrl # None => uploadedImageUrl = UploadUrl(selectedFile)

=============================================================================
